---- MODULE Spec2Model ----
(***************************************************************************)
(* Model of the "Next step" machinery of the train-ticketing page objects: *)
(* ResultsPage.select_ap125, ResultsPage.continue_next,                    *)
(* ResultsPage._force_valid and ResultsPage._wait_transition               *)
(* (src/pages/results_page.py), together with the browser page they drive. *)
(*                                                                         *)
(* The browser is the environment: its URL, the seat-map marker, the GO    *)
(* radio group and the terms checkboxes are state; every driver call of    *)
(* the code either succeeds or raises, chosen with \E.                     *)
(***************************************************************************)
EXTENDS Integers, Sequences, FiniteSets, TLC

\* ---------------------------------------------------------------- bounds
MaxUrl == 1          \* the page navigates at most MaxUrl times in a run
NRows == 2           \* rows of the results table that carry a GO radio
NTerms == 1          \* checkboxes matched by TERMS_ANY

\* -------------------------------------------------------- program constants
\* the triggers of continue_next, in the order of its try blocks
TriggerKinds ==
    <<"click", "actions_click", "js_click", "enter_key", "form_submit",
      "enable_js_click">>

NTriggers == Len(TriggerKinds)

Rows == 1..NRows
Checkboxes == 1..NTerms
Triggers == 1..NTriggers
Urls == 0..MaxUrl

VARIABLES
    url,          \* driver.current_url of the browser
    marker,       \* a seat-map marker element is present in the page
    selected,     \* row whose GO radio is checked, 0 when none is
    target,       \* row of "AP 125" with the requested dep/arr times
    terms,        \* checked state of every TERMS_ANY checkbox
    pc,           \* position of the program
    call,         \* number of the continue_next call of select_ap125 (0: none yet)
    trig,         \* trigger continue_next is at
    url_before,   \* local url_before of continue_next
    attempted,    \* triggers whose try block was entered in this call, in order
    fired,        \* triggers whose firing completed in this call
    raised,       \* triggers whose firing raised in this call
    waited,       \* triggers after which _wait_transition ran in this call
    lastWait,     \* the latest _wait_transition of this call: what it polled and returned
    cnOut,        \* outcome of the continue_next call: "none", "true", "false", "raise"
    success,      \* local success of select_ap125
    ret,          \* outcome of select_ap125: "none", "true", "false", "raise"
    hist,         \* calls made by select_ap125 from step 7 on, in order
    auth,         \* AuthPage: the screen shown and the run of main's step 7
    tm,           \* continue_next seen with a clock: its waits and the time they take
    buy,          \* BuyPage: the calendar, the passengers dropdown and their calls
    first_url_before, \* the url_before the first continue_next call of select_ap125 read
    run           \* main: the step it is at, the exception in flight, the quit calls

vars == <<url, marker, selected, target, terms, pc, call, trig, url_before,
          attempted, fired, raised, waited, lastWait, cnOut, success, ret, hist,
          auth, tm, buy, first_url_before, run>>

\* the state of the other page objects, untouched by ResultsPage
sideVars == <<auth, tm, buy, run>>

pageVars == <<url, marker, selected, target, terms>>
cnVars == <<trig, url_before, attempted, fired, raised, waited, lastWait, cnOut>>

\* ------------------------------------------------------------ pure helpers

\* lambda of _wait_transition: URL changed, or a seat-map marker is present
Signal_always(u, m, ub) == TRUE

Signal_url_only(u, m, ub) == u # ub

Signal(u, m, ub) == (u # ub) \/ m

\* _wait_transition: True when until() returned, False on TimeoutException,
\* any other exception of the polled lambda propagates ("error")
WaitOutcome(u, m, ub, err) ==
    IF err THEN "error"
    ELSE IF Signal(u, m, ub) THEN "true"
    ELSE "timeout"

\* what a _wait_transition call leaves behind: the page state its lambda
\* polled last (polled = FALSE when the lambda raised instead) and its outcome
WaitRecord(i, u, m, out) ==
    IF out = "error"
    THEN [trig |-> i, polled |-> FALSE, url |-> 0, marker |-> FALSE, out |-> out]
    ELSE [trig |-> i, polled |-> TRUE, url |-> u, marker |-> m, out |-> out]

\* no _wait_transition has run yet in this call
NoWait == [trig |-> 0, polled |-> FALSE, url |-> 0, marker |-> FALSE, out |-> "none"]

\* step 1 of _force_valid: the radio of the FIRST row that has a GO radio is
\* clicked when that radio is not selected; a radio group keeps one selection
ForceRadio(sel, found, clickOk) ==
    IF ~found THEN sel
    ELSE IF sel = 1 THEN sel
    ELSE IF clickOk THEN 1
    ELSE sel

\* step 2 of _force_valid: every unchecked TERMS_ANY checkbox whose script
\* ran becomes checked; checked ones are left alone
ForceTerms(t, failset) == [c \in Checkboxes |-> t[c] \/ (c \notin failset)]

\* outcomes of firing trigger i (1..5)
FireOutcomes(i) ==
    IF i = 5 THEN {"ok", "raise", "no_form"} ELSE {"ok", "raise"}

\* where continue_next goes after the firing of trigger i (1..5) ended with o:
\* a raise skips the wait of that trigger, a missing form does not
AfterFire_propagate(i, o) ==
    IF o = "raise" THEN <<"cn_ret", i, "false">> ELSE <<"cn_wait", i, "none">>

AfterFire(i, o) ==
    IF o = "raise" THEN <<"cn_fire", i + 1, "none">> ELSE <<"cn_wait", i, "none">>

\* where continue_next goes after the wait that follows trigger i returned out
AfterWait_retry(i, out) ==
    IF out = "true" THEN <<"cn_ret", i, "true">> ELSE <<"cn_fire", i, "none">>

AfterWait_no_return(i, out) ==
    IF i < NTriggers THEN <<"cn_fire", i + 1, "none">>
    ELSE <<"cn_ret", i, IF out = "true" THEN "true" ELSE "false">>

AfterWait(i, out) ==
    IF out = "true" THEN <<"cn_ret", i, "true">>
    ELSE IF i < NTriggers THEN <<"cn_fire", i + 1, "none">>
    ELSE <<"cn_ret", i, "false">>

\* the trigger call number c of continue_next starts with: always the
\* ordinary click, nothing is kept from an earlier call
FirstTrigger_resume(c) == IF c = 1 THEN 1 ELSE NTriggers

FirstTrigger(c) == 1

\* select_ap125 step 9: retry only when the first attempt failed
SecondAttempt_always(s) == TRUE

SecondAttempt(s) == ~s

\* select_ap125 step 10: artifacts only when still not advanced
NeedArtifacts_always(s) == TRUE

NeedArtifacts(s) == ~s

\* select_ap125 step 10: save_artifacts sits in try/except Exception: pass,
\* so the method returns False whether or not saving worked
AfterArtifacts_no_except(ok) == IF ok THEN "false" ELSE "raise"

AfterArtifacts(ok) == "false"

\* the other page objects before they are used
AuthIdle == [pc |-> "idle"]

TmIdle == [pc |-> "idle"]

BuyIdle == [pc |-> "idle"]

RunIdle == [pc |-> "idle"]

\* ------------------------------------------------------------------- Init
\* State when main calls select_ap125: the results page is shown, no
\* seat map, no GO radio chosen yet, the terms checkboxes in any state.
Init ==
    /\ url = 0
    /\ marker = FALSE
    /\ selected = 0
    /\ target \in Rows
    /\ terms \in [Checkboxes -> BOOLEAN]
    /\ pc = "sel_row"
    /\ call = 0
    /\ trig = 0
    /\ url_before = 0
    /\ attempted = <<>>
    /\ fired = {}
    /\ raised = {}
    /\ waited = {}
    /\ lastWait = NoWait
    /\ cnOut = "none"
    /\ success = FALSE
    /\ ret = "none"
    /\ hist = <<>>
    /\ auth = AuthIdle
    /\ tm = TmIdle
    /\ buy = BuyIdle
    /\ first_url_before = 0
    /\ run = RunIdle

\* an exception leaves select_ap125
Propagate ==
    /\ pc' = "done"
    /\ ret' = "raise"

\* ------------------------------------------------------------ select_ap125

\* step 1: wait for the AP 125 row and scroll to it
FindRow ==
    /\ pc = "sel_row"
    /\ \E ok \in BOOLEAN :
         IF ok THEN pc' = "sel_radio" /\ ret' = ret
         ELSE Propagate
    /\ UNCHANGED <<sideVars, first_url_before, pageVars, cnVars, call, success, hist>>

\* steps 2-3: click the radio of the row (JS click as fallback) and wait
\* until it reports selected; the wait times out when the click had no effect
SelectRadio ==
    /\ pc = "sel_radio"
    /\ \E o \in {"ok", "no_effect", "raise"} :
         /\ selected' = IF o = "ok" THEN target ELSE selected
         /\ IF o = "raise" \/ selected' # target
            THEN Propagate
            ELSE pc' = "sel_debug1" /\ ret' = ret
    /\ UNCHANGED <<sideVars, first_url_before, url, marker, target, terms, cnVars, call, success, hist>>

\* steps 4, 6, 8 and the one of step 9: debug_form_state runs one script
DebugNext(p) ==
    CASE p = "sel_debug1" -> "sel_terms"
      [] p = "sel_debug2" -> "sel_call"
      [] p = "sel_debug3" -> "sel_check1"
      [] p = "sel_debug4" -> "sel_call"

DebugFormState ==
    /\ pc \in {"sel_debug1", "sel_debug2", "sel_debug3", "sel_debug4"}
    /\ \E ok \in BOOLEAN :
         IF ok THEN pc' = DebugNext(pc) /\ ret' = ret
         ELSE Propagate
    /\ UNCHANGED <<sideVars, first_url_before, pageVars, cnVars, call, success, hist>>

\* step 5: accept_terms swallows every exception; the travelTerms checkbox
\* (checkbox 1) ends checked or not
AcceptTerms ==
    /\ pc = "sel_terms"
    /\ \E b \in BOOLEAN : terms' = [terms EXCEPT ![1] = b]
    /\ pc' = "sel_debug2"
    /\ UNCHANGED <<sideVars, first_url_before, url, marker, selected, target, cnVars, call, success, ret, hist>>

\* steps 7 and 9: success = self.continue_next()
CallContinueNext ==
    /\ pc = "sel_call"
    /\ call' = call + 1
    /\ hist' = Append(hist, "continue_next")
    /\ pc' = "cn_spinner"
    /\ trig' = 0
    /\ url_before' = 0
    /\ attempted' = <<>>
    /\ fired' = {}
    /\ raised' = {}
    /\ waited' = {}
    /\ lastWait' = NoWait
    /\ cnOut' = "none"
    /\ UNCHANGED <<sideVars, first_url_before, pageVars, success, ret>>

\* continue_next hands its outcome back to select_ap125
ReturnContinueNext ==
    /\ pc = "cn_ret"
    /\ hist' = Append(hist, cnOut)
    /\ IF cnOut = "raise"
       THEN Propagate /\ success' = success
       ELSE /\ success' = (cnOut = "true")
            /\ pc' = IF call = 1 THEN "sel_debug3" ELSE "sel_check2"
            /\ ret' = ret
    /\ UNCHANGED <<sideVars, first_url_before, pageVars, cnVars, call>>

\* step 9: if not success
CheckFirst ==
    /\ pc = "sel_check1"
    /\ pc' = IF SecondAttempt(success) THEN "sel_force" ELSE "sel_check2"
    /\ UNCHANGED <<sideVars, first_url_before, pageVars, cnVars, call, success, ret, hist>>

\* step 9: self._force_valid() between the two attempts
ForceBetween ==
    /\ pc = "sel_force"
    /\ hist' = Append(hist, "_force_valid")
    /\ \E found \in BOOLEAN, clickOk \in BOOLEAN, listOk \in BOOLEAN,
          failset \in SUBSET Checkboxes :
         /\ selected' = ForceRadio(selected, found, clickOk)
         /\ terms' = IF listOk THEN ForceTerms(terms, failset) ELSE terms
         /\ IF listOk THEN pc' = "sel_debug4" /\ ret' = ret
            ELSE Propagate
    /\ UNCHANGED <<sideVars, first_url_before, url, marker, target, cnVars, call, success>>

\* step 10: if not success -> save_artifacts, return False; else return True
CheckFinal ==
    /\ pc = "sel_check2"
    /\ IF NeedArtifacts(success)
       THEN pc' = "sel_artifacts" /\ ret' = ret
       ELSE pc' = "done" /\ ret' = "true"
    /\ UNCHANGED <<sideVars, first_url_before, pageVars, cnVars, call, success, hist>>

\* step 10: save_artifacts("auth_gate") inside try/except, then return False
SaveArtifacts ==
    /\ pc = "sel_artifacts"
    /\ \E ok \in BOOLEAN :
         /\ hist' = Append(hist, IF ok THEN "save_artifacts" ELSE "save_artifacts_failed")
         /\ ret' = AfterArtifacts(ok)
    /\ pc' = "done"
    /\ UNCHANGED <<sideVars, first_url_before, pageVars, cnVars, call, success>>

\* ----------------------------------------------------------- continue_next

\* an exception leaves continue_next, or it returns a boolean
CnReturn(out) ==
    /\ pc' = "cn_ret"
    /\ cnOut' = out

\* self.wait_spinner_gone(): every exception is swallowed
WaitSpinnerGone ==
    /\ pc = "cn_spinner"
    /\ pc' = "cn_force"
    /\ UNCHANGED <<sideVars, first_url_before, pageVars, cnVars, call, success, ret, hist>>

\* self._force_valid() at the start of continue_next; the find_elements of
\* its step 2 is outside every try
ForceAtStart ==
    /\ pc = "cn_force"
    /\ \E found \in BOOLEAN, clickOk \in BOOLEAN, listOk \in BOOLEAN,
          failset \in SUBSET Checkboxes :
         /\ selected' = ForceRadio(selected, found, clickOk)
         /\ terms' = IF listOk THEN ForceTerms(terms, failset) ELSE terms
         /\ IF listOk THEN pc' = "cn_url" /\ cnOut' = cnOut
            ELSE CnReturn("raise")
    /\ UNCHANGED <<sideVars, first_url_before, url, marker, target, trig, url_before, attempted, fired,
                   raised, waited, lastWait, call, success, ret, hist>>

\* url_before = self.driver.current_url, outside the try
ReadUrlBefore ==
    /\ pc = "cn_url"
    /\ \E ok \in BOOLEAN :
         IF ok THEN /\ url_before' = url
                    /\ first_url_before' = IF call = 1 THEN url ELSE first_url_before
                    /\ pc' = "cn_locate"
                    /\ cnOut' = cnOut
         ELSE /\ url_before' = url_before
              /\ first_url_before' = first_url_before
              /\ CnReturn("raise")
    /\ UNCHANGED <<sideVars, pageVars, trig, attempted, fired, raised, waited, lastWait,
                   call, success, ret, hist>>

\* btn = wait.until(presence_of_element_located(NEXT_BTN)) and scrollIntoView;
\* a failure is caught by the outer except: return False
LocateNext ==
    /\ pc = "cn_locate"
    /\ \E ok \in BOOLEAN :
         IF ok THEN /\ pc' = "cn_fire"
                    /\ trig' = FirstTrigger(call)
                    /\ cnOut' = cnOut
         ELSE /\ trig' = trig
              /\ CnReturn("false")
    /\ UNCHANGED <<sideVars, first_url_before, pageVars, url_before, attempted, fired, raised, waited, lastWait,
                   call, success, ret, hist>>

\* triggers 1..5: click, ActionChains click, JS click, Enter, form submit
Fire ==
    /\ pc = "cn_fire"
    /\ trig < NTriggers
    /\ attempted' = Append(attempted, TriggerKinds[trig])
    /\ \E o \in FireOutcomes(trig) :
         /\ fired' = IF o = "ok" THEN fired \cup {trig} ELSE fired
         /\ raised' = IF o = "raise" THEN raised \cup {trig} ELSE raised
         /\ pc' = AfterFire(trig, o)[1]
         /\ trig' = AfterFire(trig, o)[2]
         /\ cnOut' = AfterFire(trig, o)[3]
    /\ UNCHANGED <<sideVars, first_url_before, pageVars, url_before, waited, lastWait, call, success, ret, hist>>

\* trigger 6: remove disabled, _force_valid, JS click; whatever raises is
\* swallowed and the wait of line 303 follows
FireLast ==
    /\ pc = "cn_fire"
    /\ trig = NTriggers
    /\ attempted' = Append(attempted, TriggerKinds[trig])
    /\ \E o \in {"raise_enable", "raise_force", "raise_click", "ok"},
          found \in BOOLEAN, clickOk \in BOOLEAN, failset \in SUBSET Checkboxes :
         /\ selected' = IF o = "raise_enable" THEN selected
                        ELSE ForceRadio(selected, found, clickOk)
         /\ terms' = IF o \in {"raise_enable", "raise_force"} THEN terms
                     ELSE ForceTerms(terms, failset)
         /\ fired' = IF o = "ok" THEN fired \cup {trig} ELSE fired
         /\ raised' = IF o = "ok" THEN raised ELSE raised \cup {trig}
    /\ pc' = "cn_wait"
    /\ UNCHANGED <<sideVars, first_url_before, url, marker, target, trig, url_before, waited, lastWait, cnOut,
                   call, success, ret, hist>>

\* self._wait_transition(url_before, timeout) after trigger trig
WaitTransition ==
    /\ pc = "cn_wait"
    /\ \E err \in BOOLEAN :
         LET out == WaitOutcome(url, marker, url_before, err)
             nxt == AfterWait(trig, out)
         IN  /\ lastWait' = WaitRecord(trig, url, marker, out)
             /\ waited' = waited \cup {trig}
             /\ pc' = nxt[1]
             /\ trig' = nxt[2]
             /\ cnOut' = nxt[3]
    /\ UNCHANGED <<sideVars, first_url_before, pageVars, url_before, attempted, fired, raised,
                   call, success, ret, hist>>

\* ------------------------------------------------------------ the browser

\* the page navigates (a reaction to a trigger that may come late, or a
\* redirect of its own) or renders the seat map
PageChange ==
    /\ pc \notin {"sel_row", "sel_radio", "done"}
    /\ \/ url < MaxUrl /\ url' = url + 1 /\ marker' = marker
       \/ ~marker /\ marker' = TRUE /\ url' = url
    /\ UNCHANGED <<sideVars, first_url_before, selected, target, terms, pc, call, cnVars, success, ret, hist>>

Next ==
    \/ FindRow
    \/ SelectRadio
    \/ DebugFormState
    \/ AcceptTerms
    \/ CallContinueNext
    \/ ReturnContinueNext
    \/ CheckFirst
    \/ ForceBetween
    \/ CheckFinal
    \/ SaveArtifacts
    \/ WaitSpinnerGone
    \/ ForceAtStart
    \/ ReadUrlBefore
    \/ LocateNext
    \/ Fire
    \/ FireLast
    \/ WaitTransition
    \/ PageChange

Spec == Init /\ [][Next]_vars

TypeOK ==
    /\ url \in Urls
    /\ marker \in BOOLEAN
    /\ selected \in 0..NRows
    /\ target \in Rows
    /\ terms \in [Checkboxes -> BOOLEAN]
    /\ call \in 0..2
    /\ trig \in 0..NTriggers
    /\ url_before \in Urls
    /\ fired \subseteq Triggers
    /\ raised \subseteq Triggers
    /\ waited \subseteq Triggers
    /\ lastWait.out \in {"none", "true", "timeout", "error"}
    /\ cnOut \in {"none", "true", "false", "raise"}
    /\ success \in BOOLEAN
    /\ ret \in {"none", "true", "false", "raise"}
    /\ first_url_before \in Urls

\* ------------------------------------------------------------------ claims

\* the trigger order the specification states
ClaimedOrder ==
    <<"click", "actions_click", "js_click", "enter_key", "form_submit",
      "enable_js_click">>

\* the latest continue_next call is over (returned or raised)
CnOver == cnOut # "none"

\* C1: continue_next returns True only if one of its _wait_transition waits
\* of that call polled a page whose URL differs from url_before or that holds
\* a seat-map marker.
C1_TrueOnlyOnObservedSignal ==
    cnOut = "true" =>
        /\ lastWait.polled
        /\ (lastWait.url # url_before) \/ lastWait.marker

C1_Witness ==
    /\ cnOut = "true"
    /\ fired # {}
    /\ lastWait.url # url_before
    /\ ~lastWait.marker

\* C2: continue_next returns True only if at least one trigger actually
\* fired during the call.
C2_TrueOnlyAfterFiredTrigger ==
    cnOut = "true" => fired # {}

\* C3: the triggers are attempted in the fixed order click, ActionChains
\* click, JS click, Enter, form submit, remove-disabled-then-JS-click, and the
\* wait that observes a signal ends the call with True: no trigger follows it.
C3_OrderedFirstSignalWins ==
    /\ Len(attempted) <= Len(ClaimedOrder)
    /\ attempted = SubSeq(ClaimedOrder, 1, Len(attempted))
    /\ lastWait.out = "true" =>
          /\ pc \notin {"cn_fire", "cn_wait"}
          /\ cnOut = "true"
          /\ Len(attempted) = lastWait.trig

C3_Witness ==
    /\ cnOut = "true"
    /\ 1 \in fired
    /\ lastWait.trig = 2
    /\ attempted = <<"click", "actions_click">>

\* C4: when the firing of a trigger raises, continue_next does not end with
\* an exception and the next trigger is attempted; after a raise in the last
\* trigger the call still ends with a boolean.
C4_RaiseFallsThrough ==
    \A i \in raised :
        /\ cnOut # "raise"
        /\ i < Len(ClaimedOrder) =>
              \/ Len(attempted) >= i + 1
              \/ pc = "cn_fire" /\ trig = i + 1 /\ cnOut = "none"
        /\ i = Len(ClaimedOrder) =>
              \/ pc = "cn_wait"
              \/ cnOut \in {"true", "false"}

C4_Witness ==
    /\ raised = {1, 2, 3, 4, 5, 6}
    /\ cnOut = "false"
    /\ Len(attempted) = 6

\* C5: whenever continue_next returns False, all six triggers have been
\* attempted exactly once, in order.
C5_FalseOnlyAfterAllSix ==
    cnOut = "false" => attempted = ClaimedOrder

\* C6: while select_ap125 runs its Next-step attempts the selected GO radio
\* is the one of the AP 125 row.
C6_SelectionStaysOnTarget ==
    call >= 1 => selected = target

\* C7: a wait that polls a page holding a seat-map marker while the URL still
\* equals url_before reports the transition, and continue_next returns True.
C7_MarkerAloneIsSignal ==
    (lastWait.polled /\ lastWait.marker /\ lastWait.url = url_before) =>
        /\ lastWait.out = "true"
        /\ pc \notin {"cn_fire", "cn_wait"}
        /\ cnOut = "true"

C7_Witness ==
    /\ cnOut = "true"
    /\ lastWait.marker
    /\ lastWait.url = url_before
    /\ lastWait.trig \in fired

\* C8: continue_next never propagates an exception to its caller.
C8_NeverRaises ==
    cnOut # "raise"

\* C9: when select_ap125 returns, it returns True iff one of its
\* continue_next calls returned True; there are at most two calls, the second
\* one follows a False of the first and a _force_valid in between, and False
\* is returned only after two False results.
C9_ReturnFollowsContinueNext ==
    /\ Len(SelectSeq(hist, LAMBDA e : e = "continue_next")) <= 2
    /\ \A k \in 2..Len(hist) :
          hist[k] = "continue_next" =>
              /\ k = 4
              /\ hist[1] = "continue_next"
              /\ hist[2] = "false"
              /\ hist[3] = "_force_valid"
    /\ ret = "true" =>
          \/ hist = <<"continue_next", "true">>
          \/ hist = <<"continue_next", "false", "_force_valid",
                      "continue_next", "true">>
    /\ ret = "false" =>
          /\ Len(hist) >= 5
          /\ SubSeq(hist, 1, 5) = <<"continue_next", "false", "_force_valid",
                                    "continue_next", "false">>

C9_Witness ==
    /\ ret = "true"
    /\ call = 2
    /\ hist[2] = "false"
    /\ hist[5] = "true"

\* C10: save_artifacts is invoked exactly once when select_ap125 returns
\* False, as its last step after the second False, and never when it returns
\* True; when saving fails the method still returns False.
SaveEvents == {"save_artifacts", "save_artifacts_failed"}

C10_ArtifactsOnlyOnFalse ==
    LET saves == SelectSeq(hist, LAMBDA e : e \in SaveEvents)
    IN  /\ Len(saves) <= 1
        /\ ret = "true" => Len(saves) = 0
        /\ ret = "false" =>
              /\ Len(saves) = 1
              /\ hist[Len(hist)] \in SaveEvents
              /\ hist[Len(hist) - 1] = "false"
        /\ Len(saves) = 1 => (pc = "done" /\ ret = "false")

C10_Witness ==
    /\ ret = "false"
    /\ hist[Len(hist)] = "save_artifacts_failed"

\* =================================================================== AuthPage
\* main step 7: if auth_page.is_here(): auth_page.click_continue_and_capture()

\* what the browser can show when main reaches step 7
Screens == {"results", "auth", "other"}

\* elements a screen can hold: the results page and the authentication
\* screen both carry the button with id buttonNext; only the authentication
\* screen has an AUTH_INDICATORS URL or LOGIN_INPUTS fields
ScreenFeatures(scr) ==
    IF scr = "auth"
    THEN [btn : BOOLEAN, urlAuth : BOOLEAN, inputs : BOOLEAN]
    ELSE [btn : BOOLEAN, urlAuth : {FALSE}, inputs : {FALSE}]

\* AuthPage.is_here: URL keyword (when the URL can be read), or the
\* buttonNext element, or a login input
IsHere(urlOk, urlAuth, btn, inputs) ==
    (urlOk /\ urlAuth) \/ btn \/ inputs

\* lambda of both waits of click_continue_and_capture
AuthSignal_always(u, ub) == TRUE

AuthSignal(u, ub) == u # ub

\* the ordinary click: the JS click is tried only when it raised
AfterClick_always_js(ok) == "a_js"

AfterClick(ok) == IF ok THEN "a_wait1" ELSE "a_js"

\* save_artifacts is called outside every try: its exception leaves the method
AfterAuthSave(ok) == IF ok THEN "false" ELSE "raise"

NoAuthWait == [polled |-> FALSE, url |-> 0, out |-> "none"]

AuthStart(scr, f) ==
    [pc |-> "a_is_here", screen |-> scr, btn |-> f.btn, urlAuth |-> f.urlAuth,
     inputs |-> f.inputs, here |-> "none", hereScreen |-> "none",
     url_before |-> 0, clicked |-> FALSE, tried |-> <<>>, fired |-> {},
     waits |-> 0, lastWait |-> NoAuthWait, saves |-> 0, ret |-> "none"]

\* the state main is in after select_ap125 returned: the browser shows the
\* results page still, the authentication screen, or the step after it
InitAuth ==
    /\ url \in Urls
    /\ marker = FALSE
    /\ selected = 0
    /\ target = 1
    /\ terms = [c \in Checkboxes |-> FALSE]
    /\ pc = "done"
    /\ call = 0
    /\ trig = 0
    /\ url_before = 0
    /\ attempted = <<>>
    /\ fired = {}
    /\ raised = {}
    /\ waited = {}
    /\ lastWait = NoWait
    /\ cnOut = "none"
    /\ success = FALSE
    /\ ret = "none"
    /\ hist = <<>>
    /\ first_url_before = 0
    /\ run = RunIdle
    /\ \E scr \in Screens : \E f \in ScreenFeatures(scr) : auth = AuthStart(scr, f)
    /\ tm = TmIdle
    /\ buy = BuyIdle

\* everything but the URL and the AuthPage state
notAuthVars == <<marker, selected, target, terms, pc, call, cnVars, success,
                 ret, hist, first_url_before, tm, buy, run>>

\* if auth_page.is_here():
AuthIsHere ==
    /\ auth.pc = "a_is_here"
    /\ \E urlOk \in BOOLEAN, findOk \in BOOLEAN :
         LET early == urlOk /\ auth.urlAuth
             res == IF ~early /\ ~findOk THEN "raise"
                    ELSE IF IsHere(urlOk, auth.urlAuth, auth.btn, auth.inputs)
                         THEN "true" ELSE "false"
         IN  auth' = [auth EXCEPT !.here = res,
                                  !.hereScreen = auth.screen,
                                  !.pc = IF res = "true" THEN "a_url" ELSE "done",
                                  !.ret = IF res = "true" THEN "none" ELSE "skipped"]
    /\ UNCHANGED <<url, notAuthVars>>

\* url_before = self.driver.current_url
AuthReadUrl ==
    /\ auth.pc = "a_url"
    /\ \E ok \in BOOLEAN :
         auth' = IF ok THEN [auth EXCEPT !.url_before = url, !.pc = "a_find"]
                 ELSE [auth EXCEPT !.ret = "raise", !.pc = "done"]
    /\ UNCHANGED <<url, notAuthVars>>

\* if not self.driver.find_elements(*self.NEXT_BTN): save_artifacts, return False
AuthFindBtn ==
    /\ auth.pc = "a_find"
    /\ \E ok \in BOOLEAN :
         auth' = IF ~ok THEN [auth EXCEPT !.ret = "raise", !.pc = "done"]
                 ELSE IF ~auth.btn THEN [auth EXCEPT !.pc = "a_save"]
                 ELSE [auth EXCEPT !.pc = "a_click"]
    /\ UNCHANGED <<url, notAuthVars>>

\* scroll_into_view (exceptions swallowed), then self.click(NEXT_BTN)
AuthClick ==
    /\ auth.pc = "a_click"
    /\ \E ok \in BOOLEAN :
         auth' = [auth EXCEPT !.tried = Append(@, "click"),
                              !.fired = IF ok THEN @ \cup {"click"} ELSE @,
                              !.clicked = ok,
                              !.pc = AfterClick(ok)]
    /\ UNCHANGED <<url, notAuthVars>>

\* except: find_element + execute_script("arguments[0].click();"); a second
\* failure leaves clicked False: save_artifacts, return False
AuthJsClick ==
    /\ auth.pc = "a_js"
    /\ \E ok \in BOOLEAN :
         auth' = [auth EXCEPT !.tried = Append(@, "js_click"),
                              !.fired = IF ok THEN @ \cup {"js_click"} ELSE @,
                              !.clicked = ok \/ @,
                              !.pc = IF ok \/ auth.clicked THEN "a_wait1" ELSE "a_save"]
    /\ UNCHANGED <<url, notAuthVars>>

\* WebDriverWait(driver, TRANSITION_TIMEOUT).until(url != url_before); the
\* first wait swallows every exception, the second one saves and returns False
AuthWait ==
    /\ auth.pc \in {"a_wait1", "a_wait2"}
    /\ \E err \in BOOLEAN :
         LET out == IF err THEN "error"
                    ELSE IF AuthSignal(url, auth.url_before) THEN "true"
                    ELSE "timeout"
             rec == IF err THEN [polled |-> FALSE, url |-> 0, out |-> out]
                    ELSE [polled |-> TRUE, url |-> url, out |-> out]
         IN  auth' = [auth EXCEPT !.waits = @ + 1,
                                  !.lastWait = rec,
                                  !.ret = IF out = "true" THEN "true" ELSE @,
                                  !.pc = IF out = "true" THEN "done"
                                         ELSE IF auth.pc = "a_wait1" THEN "a_submit"
                                         ELSE "a_save"]
    /\ UNCHANGED <<url, notAuthVars>>

\* the form of the button is looked up and submitted; every exception is
\* swallowed and a missing form is skipped
AuthSubmit ==
    /\ auth.pc = "a_submit"
    /\ \E o \in {"ok", "no_form", "raise"} :
         auth' = [auth EXCEPT !.tried = Append(@, "form_submit"),
                              !.fired = IF o = "ok" THEN @ \cup {"form_submit"} ELSE @,
                              !.pc = "a_wait2"]
    /\ UNCHANGED <<url, notAuthVars>>

\* self.save_artifacts(tag); return False
AuthSave ==
    /\ auth.pc = "a_save"
    /\ \E ok \in BOOLEAN :
         auth' = [auth EXCEPT !.saves = @ + 1,
                              !.ret = AfterAuthSave(ok),
                              !.pc = "done"]
    /\ UNCHANGED <<url, notAuthVars>>

\* the browser navigates away while click_continue_and_capture runs
AuthNavigate ==
    /\ auth.pc \notin {"idle", "a_is_here", "done"}
    /\ url < MaxUrl
    /\ url' = url + 1
    /\ \E b \in BOOLEAN :
         auth' = [auth EXCEPT !.screen = "other", !.btn = b,
                              !.urlAuth = FALSE, !.inputs = FALSE]
    /\ UNCHANGED notAuthVars

NextAuth ==
    \/ AuthIsHere
    \/ AuthReadUrl
    \/ AuthFindBtn
    \/ AuthClick
    \/ AuthJsClick
    \/ AuthWait
    \/ AuthSubmit
    \/ AuthSave
    \/ AuthNavigate

SpecAuth == InitAuth /\ [][NextAuth]_vars

\* ---------------------------------------------------------- AuthPage claims

\* C11: click_continue_and_capture returns True only if one of its two waits,
\* run after a click fired, polled a URL that differs from url_before; when
\* it returns False no wait polled such a URL.
C11_AuthTrueOnlyOnUrlChange ==
    /\ auth.ret = "true" =>
          /\ auth.lastWait.polled
          /\ auth.lastWait.url # auth.url_before
          /\ auth.waits \in {1, 2}
          /\ auth.fired \cap {"click", "js_click"} # {}
    /\ auth.ret = "false" =>
          ~(auth.lastWait.polled /\ auth.lastWait.url # auth.url_before)

C11_Witness ==
    /\ auth.ret = "true"
    /\ auth.waits = 2
    /\ auth.lastWait.url # auth.url_before

\* C12: every call of click_continue_and_capture ends with a boolean, with
\* save_artifacts called exactly once before False and never before True.
C12_AuthEndsWithBooleanAndSaves ==
    (auth.pc = "done" /\ auth.here = "true") =>
        /\ auth.ret \in {"true", "false"}
        /\ auth.ret = "false" => auth.saves = 1
        /\ auth.ret = "true" => auth.saves = 0

C14_IsHereOnlyOnAuthScreen ==
    auth.here = "true" => auth.hereScreen = "auth"

\* ======================================================= continue_next, timed
\* The same call with a clock. Time is counted in seconds; a WebDriverWait
\* polls, sleeps one poll period (taken as one unit) and gives up once the
\* clock has passed its timeout.

SPINNER_TIMEOUT == 6

DEFAULT_TIMEOUT == 15

\* the timeout continue_next hands to _wait_transition after each trigger
PerTriggerTimeout == <<10, 8, 8, 6, 10, 8>>

\* timeouts _wait_transition is called with on its own
MaxTimeout == 2
Timeouts == (0 - MaxTimeout)..MaxTimeout

\* WebDriverWait.until: after an unsuccessful poll and the sleep, the loop
\* ends when the clock has passed the timeout
WaitExpired(clock, timeout) == clock > timeout

\* ResultsPage state while only the timed call is looked at
ResultsIdle(p) ==
    /\ selected = 0
    /\ target = 1
    /\ terms = [c \in Checkboxes |-> FALSE]
    /\ pc = p
    /\ call = 0
    /\ trig = 0
    /\ url_before = 0
    /\ attempted = <<>>
    /\ fired = {}
    /\ raised = {}
    /\ waited = {}
    /\ lastWait = NoWait
    /\ cnOut = "none"
    /\ success = FALSE
    /\ ret = "none"
    /\ hist = <<>>
    /\ first_url_before = 0

TmStart(p, t, ub, alone) ==
    [pc |-> p, trig |-> 0, timeout |-> t, clock |-> 0, polls |-> 0,
     elapsed |-> 0, url_before |-> ub, attempted |-> 0, out |-> "none",
     standalone |-> alone]

\* a call of continue_next starts
InitTime ==
    /\ run = RunIdle
    /\ ResultsIdle("timing")
    /\ url = 0
    /\ marker = FALSE
    /\ auth = AuthIdle
    /\ buy = BuyIdle
    /\ tm = TmStart("cn_spinner", 0, 0, FALSE)

\* a call of _wait_transition(url_before, timeout) on its own
InitWait ==
    /\ run = RunIdle
    /\ ResultsIdle("timing")
    /\ url \in Urls
    /\ marker \in BOOLEAN
    /\ auth = AuthIdle
    /\ buy = BuyIdle
    /\ \E t \in Timeouts, ub \in Urls : tm = TmStart("cn_wait", t, ub, TRUE)

notTmVars == <<pageVars, pc, call, cnVars, success, ret, hist, first_url_before,
               auth, buy, run>>

\* wait_spinner_gone: up to SPINNER_TIMEOUT while an overlay stays visible
TmSpinner ==
    /\ tm.pc = "cn_spinner"
    /\ \E d \in {0, SPINNER_TIMEOUT} :
         tm' = [tm EXCEPT !.elapsed = @ + d, !.pc = "cn_force"]
    /\ UNCHANGED notTmVars

\* _force_valid and url_before = current_url: no wait, either may raise
TmForceAndUrl ==
    /\ tm.pc = "cn_force"
    /\ \E ok \in BOOLEAN :
         tm' = IF ok THEN [tm EXCEPT !.url_before = url, !.pc = "cn_locate"]
               ELSE [tm EXCEPT !.out = "raise", !.pc = "cn_ret"]
    /\ UNCHANGED notTmVars

\* self.wait.until(presence_of_element_located(NEXT_BTN)): up to
\* DEFAULT_TIMEOUT, then False from the outer except
TmLocate ==
    /\ tm.pc = "cn_locate"
    /\ \E ok \in BOOLEAN, d \in {0, DEFAULT_TIMEOUT} :
         tm' = IF ok THEN [tm EXCEPT !.elapsed = @ + d, !.pc = "cn_fire",
                                     !.trig = FirstTrigger(1)]
               ELSE [tm EXCEPT !.elapsed = @ + DEFAULT_TIMEOUT, !.out = "false",
                               !.pc = "cn_ret"]
    /\ UNCHANGED notTmVars

\* time the firing of trigger i can take: trigger 1 first waits up to
\* DEFAULT_TIMEOUT for the button to be clickable, the others do not wait
FireDelays(i) == IF i = 1 THEN {0, DEFAULT_TIMEOUT} ELSE {0}

\* a trigger is fired (or raises); its wait, when there is one, starts
TmFire ==
    /\ tm.pc = "cn_fire"
    /\ \E o \in FireOutcomes(tm.trig), d \in FireDelays(tm.trig) :
         LET nxt == IF tm.trig < NTriggers THEN AfterFire(tm.trig, o)
                    ELSE <<"cn_wait", tm.trig, "none">>
         IN  tm' = [tm EXCEPT !.elapsed = @ + d,
                              !.attempted = @ + 1,
                              !.pc = nxt[1],
                              !.trig = nxt[2],
                              !.timeout = PerTriggerTimeout[nxt[2]],
                              !.clock = 0,
                              !.polls = 0]
    /\ UNCHANGED notTmVars

\* one round of WebDriverWait.until inside _wait_transition: poll the lambda,
\* return on a signal, else sleep a period and give up once expired
TmPoll ==
    /\ tm.pc = "cn_wait"
    /\ \E err \in BOOLEAN :
         LET sig == ~err /\ Signal(url, marker, tm.url_before)
             expired == WaitExpired(tm.clock + 1, tm.timeout)
             out == IF err THEN "error" ELSE IF sig THEN "true"
                    ELSE IF expired THEN "timeout" ELSE "none"
             nxt == AfterWait(tm.trig, out)
             slept == IF err \/ sig THEN 0 ELSE 1
         IN  tm' = IF out = "none"
                   THEN [tm EXCEPT !.clock = @ + 1, !.elapsed = @ + 1, !.polls = @ + 1]
                   ELSE IF tm.standalone
                   THEN [tm EXCEPT !.clock = @ + slept, !.elapsed = @ + slept,
                                   !.polls = @ + 1,
                                   !.out = IF err THEN "raise"
                                           ELSE IF sig THEN "true" ELSE "false",
                                   !.pc = "cn_ret"]
                   ELSE [tm EXCEPT !.clock = @ + slept, !.elapsed = @ + slept,
                                   !.polls = @ + 1,
                                   !.pc = nxt[1], !.trig = nxt[2], !.out = nxt[3]]
    /\ UNCHANGED notTmVars

NextTime ==
    \/ TmSpinner
    \/ TmForceAndUrl
    \/ TmLocate
    \/ TmFire
    \/ TmPoll
    \/ PageChange

SpecTime == InitTime /\ [][NextTime]_vars

NextWait ==
    \/ TmPoll
    \/ PageChange

SpecWait == InitWait /\ [][NextWait]_vars

\* ------------------------------------------------------------ timing claims

\* C15: _wait_transition called with a timeout <= 0 fails fast: it does not
\* poll the signal and does not return a boolean.
C15_NonPositiveTimeoutRejected ==
    (tm.standalone /\ tm.pc = "cn_ret" /\ tm.timeout <= 0) =>
        /\ tm.polls = 0
        /\ tm.out \notin {"true", "false"}

\* a step of the timed call itself
TmStep ==
    TmSpinner \/ TmForceAndUrl \/ TmLocate \/ TmFire \/ TmPoll

\* position of the timed call in the text of continue_next
TmPos(t) ==
    CASE t.pc = "cn_spinner" -> 0
      [] t.pc = "cn_force" -> 1
      [] t.pc = "cn_locate" -> 2
      [] t.pc = "cn_fire" -> 1 + 2 * t.trig
      [] t.pc = "cn_wait" -> 2 + 2 * t.trig
      [] t.pc = "cn_ret" -> 3 + 2 * Len(ClaimedOrder)

\* the longest wait of the call, in polls
LongestWait ==
    CHOOSE m \in {PerTriggerTimeout[i] : i \in DOMAIN PerTriggerTimeout} :
        \A i \in DOMAIN PerTriggerTimeout : PerTriggerTimeout[i] <= m

\* steps the call can still take
TmMeasure(t) ==
    (4 + 2 * Len(ClaimedOrder) - TmPos(t)) * (LongestWait + 2) - t.clock

\* C16: continue_next terminates: every step of the call lowers a bound on
\* the steps left that never drops below zero, a step is possible until the
\* call has returned, and at most six triggers are attempted.
C16_ContinueNextTerminates ==
    [][ /\ (tm' # tm) =>
             /\ TmMeasure(tm') < TmMeasure(tm)
             /\ TmMeasure(tm') >= 0
             /\ tm'.attempted <= Len(ClaimedOrder)
        /\ (tm.pc # "cn_ret") => ENABLED TmStep
      ]_vars

C16_Witness ==
    /\ tm.pc = "cn_ret"
    /\ tm.out = "false"
    /\ tm.attempted = 6
    /\ tm.elapsed >= 50

\* the sum of the six signal timeouts, as the claim states it
ClaimedBudget == 10 + 8 + 8 + 6 + 10 + 8

\* C17: a full exhaustion run of continue_next takes at most the sum of the
\* six signal timeouts plus one poll period per wait.
C17_ExhaustionWithinBudget ==
    (~tm.standalone /\ tm.pc = "cn_ret" /\ tm.out = "false" /\ tm.attempted = 6) =>
        tm.elapsed <= ClaimedBudget + Len(ClaimedOrder)

\* --------------------------------------------------- frame claims (Spec)

SaveCount(h) == Len(SelectSeq(h, LAMBDA e : e \in SaveEvents))

\* C18: artifacts are never written while continue_next runs; the only
\* save_artifacts is the one select_ap125 makes after continue_next
\* returned False.
C18_OnlyCallerSavesArtifacts ==
    [][ (SaveCount(hist') # SaveCount(hist)) =>
            /\ pc = "sel_artifacts"
            /\ cnOut = "false"
            /\ hist[Len(hist)] = "false"
      ]_vars

C18_Witness ==
    /\ ret = "false"
    /\ cnOut = "false"
    /\ Len(attempted) = 6
    /\ hist[Len(hist)] = "save_artifacts"

\* C19: url_before is read once per call, before any trigger is attempted,
\* and keeps its value for the rest of the call; every call starts from the
\* first trigger with nothing tried, fired or waited for.
C19_StatelessAcrossCalls ==
    [][ /\ (pc \notin {"sel_call", "cn_url"}) => url_before' = url_before
        /\ (pc = "cn_url" /\ pc' = "cn_locate") =>
              /\ url_before' = url
              /\ attempted = <<>>
              /\ fired = {}
        /\ (pc = "cn_locate" /\ pc' = "cn_fire") =>
              /\ trig' = 1
              /\ attempted' = <<>>
              /\ fired' = {}
              /\ raised' = {}
              /\ waited' = {}
              /\ lastWait' = NoWait
      ]_vars

C19_Witness ==
    /\ call = 2
    /\ pc = "cn_fire"
    /\ trig = 1
    /\ url_before = 1
    /\ hist[2] = "false"

\* ==================================================================== BuyPage
\* main steps 3 and 4: buy_page.pick_date(...), buy_page.set_passengers(n)

MAX_CALENDAR_MONTHS == 12

\* the dropdown entry FOUR_PASSENGERS_OPT locates: "4 Passengers"
FOUR_PASSENGERS_OPT == 4

\* months the target month can lie ahead of the month the calendar shows
MaxOffset == 13

\* entries of the passengers dropdown
MaxPassengers == 4

\* the option set_passengers(count) clicks: the locator is fixed, the
\* argument is not used
PassengerOption(count) == FOUR_PASSENGERS_OPT

\* for _ in range(MAX_CALENDAR_MONTHS): the body runs while turns are left
LoopContinues(iter) == iter < MAX_CALENDAR_MONTHS

BuyStart(off, n) ==
    [pc |-> "pd_open", offset |-> off, shown |-> 0, iter |-> 0, date |-> "none",
     count |-> n, option |-> 0, ret |-> "none"]

InitBuy ==
    /\ run = RunIdle
    /\ ResultsIdle("buying")
    /\ url = 0
    /\ marker = FALSE
    /\ auth = AuthIdle
    /\ tm = TmIdle
    /\ \E off \in 0..MaxOffset, n \in 1..MaxPassengers : buy = BuyStart(off, n)

notBuyVars == <<pageVars, pc, call, cnVars, success, ret, hist, first_url_before,
                auth, tm, run>>

BuyRaise == [buy EXCEPT !.ret = "raise", !.pc = "done"]

\* pick_date: self.open_calendar()
OpenCalendar ==
    /\ buy.pc = "pd_open"
    /\ \E ok \in BOOLEAN :
         buy' = IF ok THEN [buy EXCEPT !.pc = "pd_loop"] ELSE BuyRaise
    /\ UNCHANGED notBuyVars

\* one turn of the loop: read month and year, break on the target month,
\* else click the next-month arrow
TurnMonth ==
    /\ buy.pc = "pd_loop"
    /\ LoopContinues(buy.iter)
    /\ \E ok \in BOOLEAN :
         buy' = IF ~ok THEN BuyRaise
                ELSE IF buy.shown = buy.offset THEN [buy EXCEPT !.pc = "pd_day"]
                ELSE [buy EXCEPT !.shown = @ + 1, !.iter = @ + 1]
    /\ UNCHANGED notBuyVars

\* the else of the loop: no turn left and no break
MonthNotFound ==
    /\ buy.pc = "pd_loop"
    /\ ~LoopContinues(buy.iter)
    /\ buy' = [buy EXCEPT !.date = "runtime_error", !.ret = "raise", !.pc = "done"]
    /\ UNCHANGED notBuyVars

\* self.click(day_locator) and the value of the date field
ClickDay ==
    /\ buy.pc = "pd_day"
    /\ \E ok \in BOOLEAN :
         buy' = IF ok THEN [buy EXCEPT !.date = "picked", !.pc = "sp_open"]
                ELSE BuyRaise
    /\ UNCHANGED notBuyVars

\* set_passengers: self.click(PASSENGERS_DROPDOWN)
OpenPassengers ==
    /\ buy.pc = "sp_open"
    /\ \E ok \in BOOLEAN :
         buy' = IF ok THEN [buy EXCEPT !.pc = "sp_option"] ELSE BuyRaise
    /\ UNCHANGED notBuyVars

\* wait until FOUR_PASSENGERS_OPT is clickable, click it, return the text
ClickPassengers ==
    /\ buy.pc = "sp_option"
    /\ \E ok \in BOOLEAN :
         buy' = IF ok THEN [buy EXCEPT !.option = PassengerOption(buy.count),
                                       !.ret = "ok", !.pc = "done"]
                ELSE BuyRaise
    /\ UNCHANGED notBuyVars

NextBuy ==
    \/ OpenCalendar
    \/ TurnMonth
    \/ MonthNotFound
    \/ ClickDay
    \/ OpenPassengers
    \/ ClickPassengers

SpecBuy == InitBuy /\ [][NextBuy]_vars

\* C20: set_passengers(count) selects the dropdown option of its count
\* argument.
C20_PassengersFollowCount ==
    (buy.pc = "done" /\ buy.ret = "ok") => buy.option = buy.count

\* C21: pick_date reaches every target month at most MAX_CALENDAR_MONTHS
\* months ahead of the month the calendar shows first: for the offsets 0 to
\* 12 it never raises the RuntimeError of the loop's else.
C21_ReachesTwelveMonthsAhead ==
    buy.offset <= MAX_CALENDAR_MONTHS => buy.date # "runtime_error"

\* ------------------------------------------- fall-through and lost transitions

\* C22: all six triggers treat a raising fire alike: no _wait_transition runs
\* for a trigger whose firing raised, and after a raise in the last trigger
\* the call returns False.
C22_RaiseSkipsWaitForAllSix ==
    \A i \in raised :
        /\ i \notin waited
        /\ (i = Len(ClaimedOrder) /\ cnOut # "none") => cnOut = "false"

\* C23: when select_ap125 returns False the page has not advanced: the URL
\* still equals the url_before of the first continue_next call and no
\* seat-map marker is present. Looked at in the returns where the page is
\* still as the last wait polled it, so that a navigation after the last poll
\* is not held against the method.
C23_FalseMeansNotAdvanced ==
    (/\ ret = "false"
     /\ lastWait.polled
     /\ lastWait.url = url
     /\ lastWait.marker = marker) =>
        /\ url = first_url_before
        /\ ~marker

\* --------------------------------------------- early returns of the AuthPage

\* line 82 was reached: the Continue button was looked for and not found
AuthButtonAbsent == auth.tried = <<>> /\ auth.saves = 1

\* line 106 was reached: the ordinary click and the JS click both raised
AuthBothClicksRaised ==
    auth.tried = <<"click", "js_click">> /\ auth.fired = {}

\* C24: when the Continue button is absent, or when both the ordinary click
\* and the JS click raise, click_continue_and_capture returns False without
\* a transition wait and without attempting the form submit.
C24_EarlyReturnIsFalse ==
    (auth.pc = "done" /\ (AuthButtonAbsent \/ AuthBothClicksRaised)) =>
        /\ auth.ret = "false"
        /\ auth.waits = 0
        /\ auth.lastWait = NoAuthWait

\* ======================================================================= main
\* The try / except / finally of main around the steps of the scenario, from
\* the point where the driver exists.

\* the calls of the try block, in order
MainSteps ==
    <<"home_open", "cookies", "buy_tickets", "set_from", "set_to",
      "open_calendar", "pick_date", "set_passengers", "search_trains",
      "await_results", "select_ap125", "is_here", "click_continue">>

StepIndex(name) == CHOOSE k \in DOMAIN MainSteps : MainSteps[k] = name

\* the call that follows step name when it returned
NextStep(name) ==
    IF StepIndex(name) < Len(MainSteps) THEN MainSteps[StepIndex(name) + 1]
    ELSE "finally"

\* steps whose result main does not look at: they return or raise
PlainSteps ==
    {"home_open", "buy_tickets", "set_from", "set_to", "open_calendar",
     "pick_date", "set_passengers", "search_trains", "await_results"}

\* except Exception as e: print(...); raise -- the exception stays in flight
Reraise_swallow(pending) == FALSE

Reraise(pending) == pending

\* finally: driver.quit() -- one call, whatever came before
QuitCalls_skip_on_error(n, pending) == IF pending THEN n ELSE n + 1

QuitCalls(n, pending) == n + 1

RunStart(b) ==
    [pc |-> "home_open", banner |-> b, pending |-> FALSE, failed |-> "none",
     handled |-> FALSE, select |-> "none", here |-> "none", quits |-> 0,
     outcome |-> "none"]

InitMain ==
    /\ ResultsIdle("in_main")
    /\ url = 0
    /\ marker = FALSE
    /\ auth = AuthIdle
    /\ tm = TmIdle
    /\ buy = BuyIdle
    /\ \E b \in BOOLEAN : run = RunStart(b)

notRunVars == <<pageVars, pc, call, cnVars, success, ret, hist, first_url_before,
                auth, tm, buy>>

\* the step raised: control goes to the except clause
RunRaise(name) ==
    [run EXCEPT !.pending = TRUE, !.failed = name, !.pc = "except"]

\* a step that returns or raises
MainPlainStep ==
    /\ run.pc \in PlainSteps
    /\ \E ok \in BOOLEAN :
         run' = IF ok THEN [run EXCEPT !.pc = NextStep(run.pc)] ELSE RunRaise(run.pc)
    /\ UNCHANGED notRunVars

\* the cookie banner: its own try / except swallows a missing banner
MainCookies ==
    /\ run.pc = "cookies"
    /\ run' = [run EXCEPT !.pc = NextStep("cookies")]
    /\ UNCHANGED notRunVars

\* success = results_page.select_ap125(...): main goes on after False too
MainSelect ==
    /\ run.pc = "select_ap125"
    /\ \E o \in {"true", "false", "raise"} :
         run' = IF o = "raise" THEN RunRaise("select_ap125")
                ELSE [run EXCEPT !.select = o, !.pc = NextStep("select_ap125")]
    /\ UNCHANGED notRunVars

\* if auth_page.is_here():
MainIsHere ==
    /\ run.pc = "is_here"
    /\ \E o \in {"true", "false", "raise"} :
         run' = IF o = "raise" THEN RunRaise("is_here")
                ELSE [run EXCEPT !.here = o,
                                 !.pc = IF o = "true" THEN NextStep("is_here")
                                        ELSE "finally"]
    /\ UNCHANGED notRunVars

\* auth_success = auth_page.click_continue_and_capture()
MainClickContinue ==
    /\ run.pc = "click_continue"
    /\ \E o \in {"true", "false", "raise"} :
         run' = IF o = "raise" THEN RunRaise("click_continue")
                ELSE [run EXCEPT !.pc = NextStep("click_continue")]
    /\ UNCHANGED notRunVars

\* except Exception as e: print(...); raise
MainExcept ==
    /\ run.pc = "except"
    /\ run' = [run EXCEPT !.handled = TRUE, !.pending = Reraise(@), !.pc = "finally"]
    /\ UNCHANGED notRunVars

\* finally: driver.quit(), then main returns or the exception goes on to
\* the caller (ChromiumDriver.quit keeps the errors of the quit command)
MainFinally ==
    /\ run.pc = "finally"
    /\ run' = [run EXCEPT !.quits = QuitCalls(@, run.pending),
                          !.outcome = IF run.pending THEN "raised" ELSE "returned",
                          !.pc = "end"]
    /\ UNCHANGED notRunVars

NextMain ==
    \/ MainPlainStep
    \/ MainCookies
    \/ MainSelect
    \/ MainIsHere
    \/ MainClickContinue
    \/ MainExcept
    \/ MainFinally

SpecMain == InitMain /\ [][NextMain]_vars

\* C25: once the driver exists, driver.quit() is called exactly once on every
\* path of main (normal run, select_ap125 returning False, a step raising),
\* never before the steps are over, and an exception of a step reaches the
\* caller after the quit.
C25_QuitExactlyOnce ==
    /\ run.quits <= 1
    /\ run.quits = 1 <=> run.pc = "end"
    /\ run.pc = "end" =>
          /\ run.failed # "none" <=> run.outcome = "raised"
          /\ run.failed = "none" <=> run.outcome = "returned"
          /\ run.failed # "none" => run.handled

C25_Witness ==
    /\ run.pc = "end"
    /\ run.failed = "select_ap125"
    /\ run.outcome = "raised"
    /\ run.quits = 1

\* ------------------------------------------------- _force_valid on the form

\* a step that runs _force_valid on its own: the one at the start of
\* continue_next and the one between the two attempts of select_ap125
ForceValidStep ==
    \/ pc = "cn_force" /\ pc' = "cn_url"
    \/ pc = "sel_force" /\ pc' = "sel_debug4"

\* C26: _force_valid is strictly additive and idempotent on the form: a GO
\* radio or terms checkbox that was checked before the call is checked after
\* it, every located terms checkbox whose script ran is checked after it, and
\* a second run with the same driver outcomes leaves the form as the first
\* run left it.
C26_ForceValidAdditiveIdempotent ==
    [][ ForceValidStep =>
          /\ selected # 0 => selected' = selected
          /\ \A c \in Checkboxes : terms[c] => terms'[c]
          /\ \A found \in BOOLEAN, clickOk \in BOOLEAN, failset \in SUBSET Checkboxes :
                LET s1 == ForceRadio(selected, found, clickOk)
                    t1 == ForceTerms(terms, failset)
                IN  /\ \A c \in Checkboxes \ failset : t1[c]
                    /\ ForceRadio(s1, found, clickOk) = s1
                    /\ ForceTerms(t1, failset) = t1
      ]_vars

====
